---- MODULE Spec2Model ----
(***************************************************************************)
(* Model of the synchronization pass of focus (operations/src/sync.rs):    *)
(* run(sparse_repo, mode, app) executed by several callers on one          *)
(* repository root, and the idle wait wait_for_machine_to_be_idle.         *)
(*                                                                         *)
(* The model covers passes on a repository that opens and whose            *)
(* configuration and references are readable.  Durations are milliseconds. *)
(***************************************************************************)
EXTENDS Integers, FiniteSets, Sequences, TLC

\* ---------------------------------------------------------------- bounds
NumProcs == 2        \* concurrent callers of run on one repository root
NumCommits == 2      \* distinct commit ids
MaxPasses == 1       \* passes each caller starts
MaxOversleep == 1    \* ms a thread::sleep may last beyond its argument
MaxSelOps == 2       \* selection operations run one after the other
MaxTime == 3         \* latest commit time, seconds

Procs == 1..NumProcs
Commits == 1..NumCommits

\* ------------------------------------------------------------- constants
PREEMPTIVE_SYNC_MAX_WAIT_MILLIS == 30000
TEST_ONLY_PREEMPTIVE_SYNC_MAX_WAIT_MILLIS_UNDER_TEST == 300
PREEMPTIVE_SYNC_POLL_INTERVAL_MILLIS == 100

\* Option<T>: None is the empty tuple, Some(x) the one-element tuple.
None == << >>
Some(x) == << x >>

\* enum SyncMode, and the (preemptive, force) pair run derives from it.
SyncMode == {"Normal", "Preemptive", "PreemptiveForce"}
preemptive(m) == m # "Normal"
\* The force flag as it would be if run dropped it.
force_ignored(m) == FALSE
force(m) == m = "PreemptiveForce"

\* enum SyncStatus.
SyncStatus == {"Success", "SkippedSyncPointUnchanged",
               "SkippedSyncPointDifferenceIrrelevant",
               "SkippedPreemptiveSyncDisabled",
               "SkippedPreemptiveSyncCancelledByActivity"}

\* session_state::SessionStatus as the idle wait matches on it: Active, or
\* anything else (Idle, or a state that could not be determined).
SessionStatus == {"Active", "Idle", "Unknown"}

\* Result<SyncResult>: Ok(SyncResult{checked_out, commit_id, status}) or Err.
OkResult(st, co, cid) ==
    [ok |-> TRUE, status |-> st, checked_out |-> co, commit_id |-> cid, error |-> ""]
ErrResult(e) ==
    [ok |-> FALSE, status |-> "", checked_out |-> FALSE, commit_id |-> None, error |-> e]
NoResult == ErrResult("not returned")

\* Content of the sparse-checkout file: the pattern set computed for a commit,
\* or the profile the clone left behind.
InitialProfile == << "clone" >>
Profile(c) == << "profile", c >>

\* Arguments of wait_for_machine_to_be_idle.
WaitArgs(i, m, q) == [idle_duration |-> i, max_wait |-> m, poll_interval |-> q]
NoArgs == WaitArgs(0, 0, 0)

\* Per-repository idle thresholds (get_preemptive_sync_idle_threshold).
IdleThresholds == {200, 400}
\* Durations the idle wait is exercised with on its own.
Durations == {100, 1000, 2000}

VARIABLES
    lock,                 \* holder of <repo>/sync.lock: None or Some(p)
    sparseFile,           \* .git/info/sparse-checkout: None (absent) or Some(content)
    workingTree,          \* pattern set the working tree was last checked out with
    syncPoint,            \* immediate sync point reference: Option<commit>
    preemptiveSyncPoint,  \* preemptive sync point reference: Option<commit>
    head,                 \* head commit of the working tree
    prefetch,             \* prefetched head of origin's primary branch: Option<commit>
    enabled,              \* repo.get_preemptive_sync_enabled()
    idle_threshold,       \* repo.get_preemptive_sync_idle_threshold()
    session,              \* the host's session activity signal
    cfg_test,             \* cfg!(test): the build under test
    pc,                   \* position of each caller in run
    mode,                 \* mode argument of the pass
    commit,               \* local `commit` of run
    backup,               \* local `backed_up_sparse_profile`: Option<BackedUpFile>
    checked,              \* local `checked_out` returned by repo.sync
    args,                 \* arguments of wait_for_machine_to_be_idle
    elapsed,              \* started_at.elapsed() of the idle wait
    polls,                \* polls of the activity signal made by the idle wait
    waited,               \* Result<bool> of the idle wait: "true", "false", "invalid"
    result,               \* what run returned
    passes,               \* passes each caller has started
    entryFile,            \* history: the sparse-checkout file as it was when the
                          \* caller's pass acquired the lock
    idleSeen,             \* history: the machine has been idle at some moment
                          \* since the caller's non-forced preemptive pass
                          \* acquired the lock
    selFile,              \* the persisted selection (the selection file)
    selMem,               \* the selection held by the SelectionManager of mutate
    selPc,                \* position of the selection operation in mutate
    selOp,                \* arguments of mutate: action, names, sync_if_changed
    selChanged,           \* what selections.mutate returned
    selWrites,            \* writes of the selection file by the operation
    selSyncs,             \* sync passes run by the operation
    selLog,               \* history: the operations that returned, in order
    selEntry,             \* history: the persisted selection when the operation
                          \* started
    headTime,             \* commit time of the head commit
    prefetchTime,         \* commit time of the prefetched head: Option<Time>
    statusOut             \* the relative-time line status printed: Option

repoVars == << lock, sparseFile, workingTree, syncPoint, preemptiveSyncPoint >>
selVars == << selFile, selMem, selPc, selOp, selChanged, selWrites, selSyncs, selLog,
             selEntry >>
statusVars == << headTime, prefetchTime, statusOut >>
\* What a sync pass finds and does not write.
envVars == << head, prefetch, enabled, idle_threshold, session, cfg_test,
              selVars, statusVars >>
waitVars == << args, elapsed, polls, waited >>
localVars == << mode, commit, backup, checked, result, passes, entryFile >>
vars == << repoVars, envVars, waitVars, localVars, pc, idleSeen >>
\* Everything the sync pass and the idle wait work on.
syncVars == << repoVars, head, prefetch, enabled, idle_threshold, session, cfg_test,
               waitVars, localVars, pc, idleSeen >>

OptCommit == {None} \cup {Some(c) : c \in Commits}

TypeOK ==
    /\ lock \in {None} \cup {Some(p) : p \in Procs}
    /\ sparseFile \in {None, Some(InitialProfile)} \cup {Some(Profile(c)) : c \in Commits}
    /\ syncPoint \in OptCommit
    /\ preemptiveSyncPoint \in OptCommit
    /\ head \in Commits
    /\ prefetch \in OptCommit
    /\ enabled \in BOOLEAN
    /\ session \in SessionStatus
    /\ mode \in [Procs -> SyncMode]
    /\ passes \in [Procs -> 0..MaxPasses]

\* Time of a commit (git2::Time): seconds since the epoch and the offset of
\* the committer's time zone in minutes.
Time(s, o) == [seconds |-> s, offset |-> o]

\* mutate's arguments before any call.
NoOp == [action |-> "Add", names |-> {}, sync_if_changed |-> FALSE]

\* No selection operation is running; the selection is empty.
SelIdle ==
    /\ selFile = {}
    /\ selMem = {}
    /\ selPc = "idle"
    /\ selOp = NoOp
    /\ selChanged = FALSE
    /\ selWrites = 0
    /\ selSyncs = 0
    /\ selLog = << >>
    /\ selEntry = selFile

\* status has not run.
StatusIdle ==
    /\ headTime = Time(0, 0)
    /\ prefetchTime = None
    /\ statusOut = None

\* State of the callers before any call.
ProcInit ==
    /\ pc = [p \in Procs |-> "idle"]
    /\ mode = [p \in Procs |-> "Normal"]
    /\ commit = [p \in Procs |-> None]
    /\ backup = [p \in Procs |-> None]
    /\ checked = [p \in Procs |-> FALSE]
    /\ args = [p \in Procs |-> NoArgs]
    /\ elapsed = [p \in Procs |-> 0]
    /\ polls = [p \in Procs |-> 0]
    /\ waited = [p \in Procs |-> ""]
    /\ result = [p \in Procs |-> NoResult]
    /\ passes = [p \in Procs |-> 0]
    /\ entryFile = [p \in Procs |-> None]
    /\ idleSeen = [p \in Procs |-> FALSE]

\* A repository as clone or an earlier sync left it: the working tree is
\* checked out with the profile on disk; the lock is free.
Init ==
    /\ lock = None
    /\ sparseFile \in {None, Some(InitialProfile)}
    /\ workingTree = InitialProfile
    /\ syncPoint \in OptCommit
    /\ preemptiveSyncPoint \in OptCommit
    /\ head \in Commits
    /\ prefetch \in OptCommit
    /\ enabled \in BOOLEAN
    /\ idle_threshold \in IdleThresholds
    /\ session \in {"Active", "Idle"}
    /\ cfg_test = TRUE
    /\ ProcInit
    /\ SelIdle
    /\ StatusIdle

\* ------------------------------------------------- scoped resources
\* BackedUpFile::new(path): remember the file's content, restore armed.
BackedUpFile_new(file) == Some([content |-> file, restore |-> TRUE])
\* BackedUpFile::set_restore(v).
set_restore(b, v) == Some([content |-> b[1].content, restore |-> v])
\* Drop of an Option<BackedUpFile>: an armed guard puts the content back.
BackedUpFile_drop(b, file) ==
    IF b # None /\ b[1].restore THEN b[1].content ELSE file
\* locking::hold_lock: blocks while the lock is held, then holds it.
lock_free == lock = None
\* Drop of the lock guard held by p.
lock_drop(l, p) == IF l = Some(p) THEN None ELSE l

\* Return as it would be if an error return left the lock guard alive.
Return_keeps_lock_on_error(p, r, b) ==
    /\ sparseFile' = BackedUpFile_drop(b, sparseFile)
    /\ lock' = IF r.ok THEN lock_drop(lock, p) ELSE lock
    /\ backup' = [backup EXCEPT ![p] = None]
    /\ commit' = [commit EXCEPT ![p] = None]
    /\ checked' = [checked EXCEPT ![p] = FALSE]
    /\ entryFile' = [entryFile EXCEPT ![p] = None]
    /\ idleSeen' = [idleSeen EXCEPT ![p] = FALSE]
    /\ result' = [result EXCEPT ![p] = r]
    /\ pc' = [pc EXCEPT ![p] = "done"]

\* Return as it would be if the lock guard were never dropped.
Return_never_unlocks(p, r, b) ==
    /\ sparseFile' = BackedUpFile_drop(b, sparseFile)
    /\ lock' = lock
    /\ backup' = [backup EXCEPT ![p] = None]
    /\ commit' = [commit EXCEPT ![p] = None]
    /\ checked' = [checked EXCEPT ![p] = FALSE]
    /\ entryFile' = [entryFile EXCEPT ![p] = None]
    /\ idleSeen' = [idleSeen EXCEPT ![p] = FALSE]
    /\ result' = [result EXCEPT ![p] = r]
    /\ pc' = [pc EXCEPT ![p] = "done"]

\* Return of run with result r, the guard local being b: the locals go out of
\* scope in reverse order of declaration, backed_up_sparse_profile (restoring
\* the file when armed) before _lock.
Return(p, r, b) ==
    /\ sparseFile' = BackedUpFile_drop(b, sparseFile)
    /\ lock' = lock_drop(lock, p)
    /\ backup' = [backup EXCEPT ![p] = None]
    /\ commit' = [commit EXCEPT ![p] = None]
    /\ checked' = [checked EXCEPT ![p] = FALSE]
    /\ entryFile' = [entryFile EXCEPT ![p] = None]
    /\ idleSeen' = [idleSeen EXCEPT ![p] = FALSE]
    /\ result' = [result EXCEPT ![p] = r]
    /\ pc' = [pc EXCEPT ![p] = "done"]

\* run goes on to the step at label l; nothing is dropped.
Goto(p, l) ==
    /\ pc' = [pc EXCEPT ![p] = l]
    /\ UNCHANGED << sparseFile, lock, result, entryFile, idleSeen >>

\* What no step of run itself changes.
runFrame == << envVars, mode, passes >>
refs == << workingTree, syncPoint, preemptiveSyncPoint >>

\* ------------------------------------------------------------ callers
\* A caller invokes run(sparse_repo, m, app).
Call(p, m) ==
    /\ pc[p] \in {"idle", "done"}
    /\ passes[p] < MaxPasses
    /\ passes' = [passes EXCEPT ![p] = @ + 1]
    /\ mode' = [mode EXCEPT ![p] = m]
    /\ pc' = [pc EXCEPT ![p] = "gate"]
    /\ result' = [result EXCEPT ![p] = NoResult]
    /\ UNCHANGED << repoVars, envVars, waitVars, commit, backup, checked, entryFile,
                    idleSeen >>

\* max_wait as run chooses it, lines 104-108.
run_max_wait ==
    IF cfg_test THEN TEST_ONLY_PREEMPTIVE_SYNC_MAX_WAIT_MILLIS_UNDER_TEST
    ELSE PREEMPTIVE_SYNC_MAX_WAIT_MILLIS

\* The gate as it would be without the enablement check.
run_gate_unchecked(p) ==
    /\ pc[p] = "gate"
    /\ IF preemptive(mode[p]) /\ ~force(mode[p])
       THEN /\ args' = [args EXCEPT ![p] =
                        WaitArgs(idle_threshold, run_max_wait,
                                 PREEMPTIVE_SYNC_POLL_INTERVAL_MILLIS)]
            /\ Goto(p, "wait_entry")
            /\ UNCHANGED << backup, commit, checked >>
       ELSE /\ Goto(p, "hold_lock")
            /\ UNCHANGED << backup, commit, checked, args >>
    /\ UNCHANGED << refs, runFrame, elapsed, polls, waited >>

\* run, lines 89-116: the scheduler gate up to the call of the idle wait.
run_gate(p) ==
    /\ pc[p] = "gate"
    /\ IF preemptive(mode[p]) /\ ~force(mode[p])
       THEN IF ~enabled
            THEN /\ Return(p, OkResult("SkippedPreemptiveSyncDisabled", FALSE, None),
                           backup[p])
                 /\ UNCHANGED args
            ELSE /\ args' = [args EXCEPT ![p] =
                        WaitArgs(idle_threshold, run_max_wait,
                                 PREEMPTIVE_SYNC_POLL_INTERVAL_MILLIS)]
                 /\ Goto(p, "wait_entry")
                 /\ UNCHANGED << backup, commit, checked >>
       ELSE /\ Goto(p, "hold_lock")
            /\ UNCHANGED << backup, commit, checked, args >>
    /\ UNCHANGED << refs, runFrame, elapsed, polls, waited >>

\* The configuration check as it would be with <= for < (equal durations
\* rejected).
wait_validate_strict(p) ==
    /\ pc[p] = "wait_entry"
    /\ IF args[p].max_wait <= args[p].idle_duration
          \/ args[p].poll_interval > args[p].max_wait
       THEN /\ waited' = [waited EXCEPT ![p] = "invalid"]
            /\ pc' = [pc EXCEPT ![p] = "wait_ret"]
       ELSE /\ waited' = waited
            /\ pc' = [pc EXCEPT ![p] = "wait_loop"]
    /\ UNCHANGED << repoVars, envVars, localVars, args, elapsed, polls, idleSeen >>

\* wait_for_machine_to_be_idle, lines 282-288: the configuration check.
wait_validate(p) ==
    /\ pc[p] = "wait_entry"
    /\ IF args[p].max_wait < args[p].idle_duration
          \/ args[p].poll_interval > args[p].max_wait
       THEN /\ waited' = [waited EXCEPT ![p] = "invalid"]
            /\ pc' = [pc EXCEPT ![p] = "wait_ret"]
       ELSE /\ waited' = waited
            /\ pc' = [pc EXCEPT ![p] = "wait_loop"]
    /\ UNCHANGED << repoVars, envVars, localVars, args, elapsed, polls, idleSeen >>

\* The observation as it would be if an undeterminable state counted as
\* activity (failing closed).
poll_state_fail_closed ==
    IF cfg_test /\ session # "Active" THEN "Idle"
    ELSE IF session = "Idle" THEN "Idle" ELSE "Active"

\* The activity state one poll observes, lines 296-310: the test-only flag
\* under test, session_state::has_session_been_idle_for otherwise.
poll_state == IF cfg_test /\ session # "Active" THEN "Idle" ELSE session

\* wait_for_machine_to_be_idle, lines 289-323: one iteration of the loop.
wait_poll(p) ==
    /\ pc[p] = "wait_loop"
    /\ IF elapsed[p] > args[p].max_wait
       THEN /\ waited' = [waited EXCEPT ![p] = "false"]
            /\ pc' = [pc EXCEPT ![p] = "wait_ret"]
            /\ UNCHANGED << elapsed, polls >>
       ELSE /\ polls' = [polls EXCEPT ![p] = @ + 1]
            /\ IF poll_state = "Active"
               THEN /\ \E over \in 0..MaxOversleep :
                         elapsed' = [elapsed EXCEPT ![p] =
                                         @ + args[p].poll_interval + over]
                    /\ UNCHANGED << waited, pc >>
               ELSE /\ waited' = [waited EXCEPT ![p] = "true"]
                    /\ pc' = [pc EXCEPT ![p] = "wait_ret"]
                    /\ UNCHANGED elapsed
    /\ UNCHANGED << repoVars, envVars, localVars, args, idleSeen >>

\* run, lines 116-128: the outcome of the idle wait; the wait's frame is gone.
run_waited(p) ==
    /\ pc[p] = "wait_ret"
    /\ CASE waited[p] = "invalid" ->
                Return(p, ErrResult("Failed waiting for machine to be idle"), backup[p])
         [] waited[p] = "false" ->
                Return(p, OkResult("SkippedPreemptiveSyncCancelledByActivity", FALSE, None),
                       backup[p])
         [] OTHER ->
                /\ Goto(p, "hold_lock")
                /\ UNCHANGED << backup, commit, checked >>
    /\ args' = [args EXCEPT ![p] = NoArgs]
    /\ elapsed' = [elapsed EXCEPT ![p] = 0]
    /\ polls' = [polls EXCEPT ![p] = 0]
    /\ waited' = [waited EXCEPT ![p] = ""]
    /\ UNCHANGED << refs, runFrame >>

\* The lock step as it would be with the guard dropped at once
\* (let _ = hold_lock(..)): it waits for the lock and does not keep it.
run_hold_lock_dropped(p) ==
    /\ pc[p] = "hold_lock"
    /\ lock_free
    /\ lock' = lock
    /\ entryFile' = [entryFile EXCEPT ![p] = sparseFile]
    /\ idleSeen' = [idleSeen EXCEPT ![p] =
                        mode[p] = "Preemptive" /\ session # "Active"]
    /\ pc' = [pc EXCEPT ![p] = "check_file"]
    /\ UNCHANGED << sparseFile, refs, envVars, waitVars,
                    mode, commit, backup, checked, result, passes >>

\* The lock step as it would be if the file were checked before the lock
\* is waited for.
run_hold_lock_after_check(p) ==
    /\ pc[p] = "hold_lock"
    /\ IF sparseFile = None
       THEN /\ Return(p, ErrResult("missing a sparse checkout file"), backup[p])
            /\ UNCHANGED << refs, envVars, waitVars, mode, passes >>
       ELSE /\ lock_free
            /\ lock' = Some(p)
            /\ entryFile' = [entryFile EXCEPT ![p] = sparseFile]
            /\ idleSeen' = [idleSeen EXCEPT ![p] =
                                mode[p] = "Preemptive" /\ session # "Active"]
            /\ pc' = [pc EXCEPT ![p] = "check_file"]
            /\ UNCHANGED << sparseFile, refs, envVars, waitVars,
                            mode, commit, backup, checked, result, passes >>

\* run, lines 130-131: block until sync.lock is free, then hold it.
run_hold_lock(p) ==
    /\ pc[p] = "hold_lock"
    /\ lock_free
    /\ lock' = Some(p)
    /\ entryFile' = [entryFile EXCEPT ![p] = sparseFile]
    /\ idleSeen' = [idleSeen EXCEPT ![p] =
                        mode[p] = "Preemptive" /\ session # "Active"]
    /\ pc' = [pc EXCEPT ![p] = "check_file"]
    /\ UNCHANGED << sparseFile, refs, envVars, waitVars,
                    mode, commit, backup, checked, result, passes >>

\* The step as it would be without the check of the file.
run_check_file_unchecked(p) ==
    /\ pc[p] = "check_file"
    /\ Goto(p, "selection")
    /\ UNCHANGED << backup, commit, checked >>
    /\ UNCHANGED << refs, runFrame, waitVars >>

\* run, lines 133-136: the sparse-checkout file must exist.
run_check_file(p) ==
    /\ pc[p] = "check_file"
    /\ IF sparseFile = None
       THEN Return(p, ErrResult("missing a sparse checkout file"), backup[p])
       ELSE /\ Goto(p, "selection")
            /\ UNCHANGED << backup, commit, checked >>
    /\ UNCHANGED << refs, runFrame, waitVars >>

\* run, lines 138-140: resolve the selection to the target set, or fail.
run_selection(p) ==
    /\ pc[p] = "selection"
    /\ \/ Return(p, ErrResult("selection"), backup[p])
       \/ /\ Goto(p, "guard")
          /\ UNCHANGED << backup, commit, checked >>
    /\ UNCHANGED << refs, runFrame, waitVars >>

\* The step as it would be if the backup were created disarmed.
run_guard_disarmed(p) ==
    /\ pc[p] = "guard"
    /\ IF preemptive(mode[p])
       THEN /\ backup' = [backup EXCEPT ![p] = None]
            /\ Goto(p, "commit")
            /\ UNCHANGED << commit, checked >>
       ELSE \/ Return(p, ErrResult("working trees not clean"), backup[p])
            \/ Return(p, ErrResult("backup failed"), backup[p])
            \/ /\ backup' = [backup EXCEPT ![p] =
                                 set_restore(BackedUpFile_new(sparseFile), FALSE)]
               /\ Goto(p, "commit")
               /\ UNCHANGED << commit, checked >>
    /\ UNCHANGED << refs, runFrame, waitVars >>

\* run, lines 154-187: an immediate pass checks that the working trees are
\* clean and arms the backup of the sparse-checkout file; a preemptive pass
\* has no backup.
run_guard(p) ==
    /\ pc[p] = "guard"
    /\ IF preemptive(mode[p])
       THEN /\ backup' = [backup EXCEPT ![p] = None]
            /\ Goto(p, "commit")
            /\ UNCHANGED << commit, checked >>
       ELSE \/ Return(p, ErrResult("working trees not clean"), backup[p])
            \/ Return(p, ErrResult("backup failed"), backup[p])
            \/ /\ backup' = [backup EXCEPT ![p] = BackedUpFile_new(sparseFile)]
               /\ Goto(p, "commit")
               /\ UNCHANGED << commit, checked >>
    /\ UNCHANGED << refs, runFrame, waitVars >>

\* The step as it would be if every pass preferred the prefetched head.
run_commit_prefetch_first(p) ==
    /\ pc[p] = "commit"
    /\ \/ Return(p, ErrResult("Resolving head commit"), backup[p])
       \/ /\ preemptive(mode[p]) /\ prefetch = None
          /\ Return(p, ErrResult("No prefetch commit found"), backup[p])
       \/ /\ ~(preemptive(mode[p]) /\ prefetch = None)
          /\ commit' = [commit EXCEPT ![p] =
                            IF prefetch # None THEN prefetch ELSE Some(head)]
          /\ Goto(p, "sync_point")
          /\ UNCHANGED << backup, checked >>
    /\ UNCHANGED << refs, runFrame, waitVars >>

\* run, lines 189-207: the commit to synchronize: the head commit, or for a
\* preemptive pass the prefetched head, which must exist.
run_commit(p) ==
    /\ pc[p] = "commit"
    /\ \/ Return(p, ErrResult("Resolving head commit"), backup[p])
       \/ /\ preemptive(mode[p]) /\ prefetch = None
          /\ Return(p, ErrResult("No prefetch commit found"), backup[p])
       \/ /\ ~(preemptive(mode[p]) /\ prefetch = None)
          /\ commit' = [commit EXCEPT ![p] =
                            IF preemptive(mode[p]) THEN prefetch ELSE Some(head)]
          /\ Goto(p, "sync_point")
          /\ UNCHANGED << backup, checked >>
    /\ UNCHANGED << refs, runFrame, waitVars >>

\* The condition as it would be if only the preemptive sync point were read.
sync_point_unchanged_preemptive_only(sp, psp, c) ==
    IF psp # None THEN psp = c ELSE FALSE

\* The condition of lines 210-231: is the commit already at a sync point?
\* The preemptive sync point is read only when the immediate one cannot be
\* (if let .. else if let ..).
sync_point_unchanged(sp, psp, c) ==
    IF sp # None THEN sp = c
    ELSE IF psp # None THEN psp = c
    ELSE FALSE

\* The short-circuit as it would be if it applied to every mode.
run_sync_point_any_mode(p) ==
    /\ pc[p] = "sync_point"
    /\ IF sync_point_unchanged(syncPoint, preemptiveSyncPoint, commit[p])
       THEN Return(p, OkResult("SkippedSyncPointUnchanged", FALSE, commit[p]), backup[p])
       ELSE /\ Goto(p, "compute")
            /\ UNCHANGED << backup, commit, checked >>
    /\ UNCHANGED << refs, runFrame, waitVars >>

\* run, lines 209-234: the preemptive short-circuit.
run_sync_point(p) ==
    /\ pc[p] = "sync_point"
    /\ IF preemptive(mode[p])
          /\ sync_point_unchanged(syncPoint, preemptiveSyncPoint, commit[p])
       THEN Return(p, OkResult("SkippedSyncPointUnchanged", FALSE, commit[p]), backup[p])
       ELSE /\ Goto(p, "compute")
            /\ UNCHANGED << backup, commit, checked >>
    /\ UNCHANGED << refs, runFrame, waitVars >>

\* repo.sync, called at lines 236-247: compute the pattern set for the
\* commit (from the cache or from scratch), or fail.
sync_compute(p) ==
    /\ pc[p] = "compute"
    /\ \/ Return(p, ErrResult("Sync failed: compute"), backup[p])
       \/ /\ Goto(p, "rewrite")
          /\ UNCHANGED << backup, commit, checked >>
    /\ UNCHANGED << refs, runFrame, waitVars >>

\* repo.sync: rewrite the sparse-checkout file with the computed patterns.
sync_rewrite(p) ==
    /\ pc[p] = "rewrite"
    /\ sparseFile' = Some(Profile(commit[p][1]))
    /\ pc' = [pc EXCEPT ![p] = "checkout"]
    /\ UNCHANGED << lock, refs, envVars, waitVars, localVars, idleSeen >>

\* repo.sync: check the working tree out with the new patterns, or fail;
\* checked_out tells whether files changed.
sync_checkout(p) ==
    /\ pc[p] = "checkout"
    /\ \/ /\ Return(p, ErrResult("Sync failed: checkout"), backup[p])
          /\ UNCHANGED workingTree
       \/ /\ workingTree' = sparseFile[1]
          /\ checked' = [checked EXCEPT ![p] = (workingTree # sparseFile[1])]
          /\ Goto(p, "update")
          /\ UNCHANGED << backup, commit >>
    /\ UNCHANGED << syncPoint, preemptiveSyncPoint, runFrame, waitVars >>

\* The last step as it would be if the backup were disarmed before the sync
\* point is written.
run_update_disarmed_early(p) ==
    /\ pc[p] = "update"
    /\ \/ /\ Return(p, ErrResult("Updating the sync point"),
                    IF preemptive(mode[p]) THEN backup[p]
                    ELSE set_restore(backup[p], FALSE))
          /\ UNCHANGED << syncPoint, preemptiveSyncPoint >>
       \/ /\ IF preemptive(mode[p])
             THEN /\ preemptiveSyncPoint' = commit[p]
                  /\ UNCHANGED syncPoint
                  /\ Return(p, OkResult("Success", checked[p], commit[p]), backup[p])
             ELSE /\ syncPoint' = commit[p]
                  /\ UNCHANGED preemptiveSyncPoint
                  /\ Return(p, OkResult("Success", checked[p], commit[p]),
                            set_restore(backup[p], FALSE))
    /\ UNCHANGED << workingTree, runFrame, waitVars >>

\* The last step as it would be if a failed write had moved the reference.
run_update_torn(p) ==
    /\ pc[p] = "update"
    /\ \/ /\ Return(p, ErrResult("Updating the sync point"), backup[p])
          /\ IF preemptive(mode[p])
             THEN preemptiveSyncPoint' = commit[p] /\ UNCHANGED syncPoint
             ELSE syncPoint' = commit[p] /\ UNCHANGED preemptiveSyncPoint
       \/ /\ IF preemptive(mode[p])
             THEN /\ preemptiveSyncPoint' = commit[p]
                  /\ UNCHANGED syncPoint
                  /\ Return(p, OkResult("Success", checked[p], commit[p]), backup[p])
             ELSE /\ syncPoint' = commit[p]
                  /\ UNCHANGED preemptiveSyncPoint
                  /\ Return(p, OkResult("Success", checked[p], commit[p]),
                            set_restore(backup[p], FALSE))
    /\ UNCHANGED << workingTree, runFrame, waitVars >>

\* The last step as it would be if a preemptive pass advanced both sync
\* points.
run_update_both(p) ==
    /\ pc[p] = "update"
    /\ \/ /\ Return(p, ErrResult("Updating the sync point"), backup[p])
          /\ UNCHANGED << syncPoint, preemptiveSyncPoint >>
       \/ /\ IF preemptive(mode[p])
             THEN /\ preemptiveSyncPoint' = commit[p]
                  /\ syncPoint' = commit[p]
                  /\ Return(p, OkResult("Success", checked[p], commit[p]), backup[p])
             ELSE /\ syncPoint' = commit[p]
                  /\ UNCHANGED preemptiveSyncPoint
                  /\ Return(p, OkResult("Success", checked[p], commit[p]),
                            set_restore(backup[p], FALSE))
    /\ UNCHANGED << workingTree, runFrame, waitVars >>

\* run, lines 249-271: write the sync point of the pass's kind; an immediate
\* pass then disarms the backup; return Success.
run_update(p) ==
    /\ pc[p] = "update"
    /\ \/ /\ Return(p, ErrResult("Updating the sync point"), backup[p])
          /\ UNCHANGED << syncPoint, preemptiveSyncPoint >>
       \/ /\ IF preemptive(mode[p])
             THEN /\ preemptiveSyncPoint' = commit[p]
                  /\ UNCHANGED syncPoint
                  /\ Return(p, OkResult("Success", checked[p], commit[p]), backup[p])
             ELSE /\ syncPoint' = commit[p]
                  /\ UNCHANGED preemptiveSyncPoint
                  /\ Return(p, OkResult("Success", checked[p], commit[p]),
                            set_restore(backup[p], FALSE))
    /\ UNCHANGED << workingTree, runFrame, waitVars >>

\* ------------------------------------------------------- environment
\* The user's session becomes active or idle (or undeterminable outside
\* the build under test).
SessionChange ==
    /\ \E s \in SessionStatus \ {session} :
          /\ cfg_test => s # "Unknown"
          /\ session' = s
          /\ idleSeen' = [p \in Procs |->
                             \/ idleSeen[p]
                             \/ lock = Some(p) /\ mode[p] = "Preemptive" /\ s # "Active"]
    /\ UNCHANGED << repoVars, head, prefetch, enabled, idle_threshold, cfg_test,
                    selVars, statusVars, waitVars, localVars, pc >>

\* A background fetch moves the prefetched head.
Prefetch ==
    /\ \E c \in Commits : prefetch # Some(c) /\ prefetch' = Some(c)
    /\ UNCHANGED << repoVars, head, enabled, idle_threshold, session, cfg_test,
                    selVars, statusVars, waitVars, localVars, pc, idleSeen >>

Step(p) ==
    \/ run_gate(p)
    \/ wait_validate(p)
    \/ wait_poll(p)
    \/ run_waited(p)
    \/ run_hold_lock(p)
    \/ run_check_file(p)
    \/ run_selection(p)
    \/ run_guard(p)
    \/ run_commit(p)
    \/ run_sync_point(p)
    \/ sync_compute(p)
    \/ sync_rewrite(p)
    \/ sync_checkout(p)
    \/ run_update(p)

Next ==
    \/ \E p \in Procs, m \in SyncMode : Call(p, m)
    \/ \E p \in Procs : Step(p)
    \/ SessionChange
    \/ Prefetch

Spec == Init /\ [][Next]_vars

\* ------------------------------------------- the idle wait on its own
\* wait_for_machine_to_be_idle called by one caller with arguments drawn
\* from Durations, in either build.
Waiter == CHOOSE p \in Procs : \A q \in Procs : p <= q

WaitInit ==
    /\ lock = None
    /\ sparseFile = Some(InitialProfile)
    /\ workingTree = InitialProfile
    /\ syncPoint = None
    /\ preemptiveSyncPoint = None
    /\ head \in Commits
    /\ prefetch = None
    /\ enabled = TRUE
    /\ idle_threshold \in IdleThresholds
    /\ cfg_test \in BOOLEAN
    /\ session \in IF cfg_test THEN {"Active", "Idle"} ELSE SessionStatus
    /\ mode = [p \in Procs |-> "Preemptive"]
    /\ commit = [p \in Procs |-> None]
    /\ backup = [p \in Procs |-> None]
    /\ checked = [p \in Procs |-> FALSE]
    /\ elapsed = [p \in Procs |-> 0]
    /\ polls = [p \in Procs |-> 0]
    /\ waited = [p \in Procs |-> ""]
    /\ result = [p \in Procs |-> NoResult]
    /\ passes = [p \in Procs |-> 0]
    /\ entryFile = [p \in Procs |-> None]
    /\ idleSeen = [p \in Procs |-> FALSE]
    /\ pc = [p \in Procs |-> IF p = Waiter THEN "wait_entry" ELSE "idle"]
    /\ \E i, m, q \in Durations :
          args = [p \in Procs |-> IF p = Waiter THEN WaitArgs(i, m, q) ELSE NoArgs]
    /\ SelIdle
    /\ StatusIdle

WaitNext ==
    \/ wait_validate(Waiter)
    \/ wait_poll(Waiter)
    \/ SessionChange

WaitSpec == WaitInit /\ [][WaitNext]_vars

\* ------------------------------------- the scheduler's part on its own
\* One caller runs a non-forced preemptive sync up to the lock (lines 86-128)
\* in either build, with the constants of lines 22-24.
\* Idle thresholds a repository may be configured with, one of them longer
\* than the release build's max_wait.
ConfiguredThresholds == IdleThresholds \cup {40000}

GateInit ==
    /\ lock = None
    /\ sparseFile = Some(InitialProfile)
    /\ workingTree = InitialProfile
    /\ syncPoint = None
    /\ preemptiveSyncPoint = None
    /\ head \in Commits
    /\ prefetch = None
    /\ enabled \in BOOLEAN
    /\ idle_threshold \in ConfiguredThresholds
    /\ cfg_test \in BOOLEAN
    /\ session \in IF cfg_test THEN {"Active", "Idle"} ELSE SessionStatus
    /\ ProcInit
    /\ SelIdle
    /\ StatusIdle

GateNext ==
    \/ Call(Waiter, "Preemptive")
    \/ run_gate(Waiter)
    \/ wait_validate(Waiter)
    \/ wait_poll(Waiter)
    \/ run_waited(Waiter)
    \/ SessionChange

GateSpec == GateInit /\ [][GateNext]_vars

\* ------------------------------------------------ selection operations
\* operation/selection.rs: add and remove, both through mutate.
Names == {"x", "y"}
OperationAction == {"Add", "Remove"}

\* SelectionManager::mutate: the selection after the action.  Adding a name
\* that is present and removing one that is absent change nothing.
Apply(action, names, sel) ==
    IF action = "Add" THEN sel \cup names ELSE sel \ names

\* mutate returns: the operation enters the log.
SelReturn(ok, changed, writes, syncs) ==
    /\ selPc' = "done"
    /\ selLog' = Append(selLog, [op |-> selOp, ok |-> ok, changed |-> changed,
                                 writes |-> writes, syncs |-> syncs])

\* add (lines 29-42) or remove (lines 44-57) calls mutate, which opens the
\* repository and loads the selection (lines 16-17).
sel_call(action, names, sync_if_changed) ==
    /\ selPc \in {"idle", "done"}
    /\ Len(selLog) < MaxSelOps
    /\ selOp' = [action |-> action, names |-> names,
                 sync_if_changed |-> sync_if_changed]
    /\ selMem' = selFile
    /\ selEntry' = selFile
    /\ selChanged' = FALSE
    /\ selWrites' = 0
    /\ selSyncs' = 0
    /\ selPc' = "mutate"
    /\ UNCHANGED << selFile, selLog, statusVars, syncVars >>

\* The step as it would be if the selection were saved whether or not it
\* changed.
sel_mutate_always_saves ==
    /\ selPc = "mutate"
    /\ \/ /\ SelReturn(FALSE, FALSE, selWrites, selSyncs)
          /\ UNCHANGED << selMem, selChanged >>
       \/ /\ selMem' = Apply(selOp.action, selOp.names, selMem)
          /\ selChanged' = (selMem' # selMem)
          /\ selPc' = "save"
          /\ UNCHANGED selLog
    /\ UNCHANGED << selFile, selOp, selWrites, selSyncs, selEntry, statusVars, syncVars >>

\* mutate, line 18 (and 26): selections.mutate fails, or applies the action
\* and tells whether the selection changed; an unchanged selection ends the
\* operation.
sel_mutate ==
    /\ selPc = "mutate"
    /\ \/ /\ SelReturn(FALSE, FALSE, selWrites, selSyncs)
          /\ UNCHANGED << selMem, selChanged >>
       \/ /\ selMem' = Apply(selOp.action, selOp.names, selMem)
          /\ selChanged' = (selMem' # selMem)
          /\ IF selChanged'
             THEN selPc' = "save" /\ UNCHANGED selLog
             ELSE SelReturn(TRUE, FALSE, selWrites, selSyncs)
    /\ UNCHANGED << selFile, selOp, selWrites, selSyncs, selEntry, statusVars, syncVars >>

\* mutate, line 19 (and 26): selections.save writes the selection file, or
\* fails; without sync_if_changed the operation ends.
sel_save ==
    /\ selPc = "save"
    /\ \/ /\ SelReturn(FALSE, selChanged, selWrites, selSyncs)
          /\ UNCHANGED << selFile, selWrites >>
       \/ /\ selFile' = selMem
          /\ selWrites' = selWrites + 1
          /\ IF selOp.sync_if_changed
             THEN selPc' = "sync" /\ UNCHANGED selLog
             ELSE SelReturn(TRUE, selChanged, selWrites', selSyncs)
    /\ UNCHANGED << selMem, selOp, selChanged, selSyncs, selEntry, statusVars, syncVars >>

\* mutate, lines 20-23 (and 26): one sync pass, which succeeds or fails.
sel_sync ==
    /\ selPc = "sync"
    /\ selSyncs' = selSyncs + 1
    /\ \/ SelReturn(TRUE, selChanged, selWrites, selSyncs')
       \/ SelReturn(FALSE, selChanged, selWrites, selSyncs')
    /\ UNCHANGED << selFile, selMem, selOp, selChanged, selWrites, selEntry,
                    statusVars, syncVars >>

\* A repository on which no sync pass is running.
SyncIdle ==
    /\ lock = None
    /\ sparseFile = Some(InitialProfile)
    /\ workingTree = InitialProfile
    /\ syncPoint = None
    /\ preemptiveSyncPoint = None
    /\ head = CHOOSE c \in Commits : \A d \in Commits : c <= d
    /\ prefetch = None
    /\ enabled = FALSE
    /\ idle_threshold = CHOOSE i \in IdleThresholds : \A j \in IdleThresholds : i <= j
    /\ session = "Idle"
    /\ cfg_test = TRUE
    /\ ProcInit

\* Selection operations, one after the other, on a repository with any
\* selection over Names.
SelInit ==
    /\ SyncIdle
    /\ StatusIdle
    /\ selFile \in SUBSET Names
    /\ selMem = selFile
    /\ selPc = "idle"
    /\ selOp = NoOp
    /\ selChanged = FALSE
    /\ selWrites = 0
    /\ selSyncs = 0
    /\ selLog = << >>
    /\ selEntry = selFile

SelNext ==
    \/ \E action \in OperationAction, names \in SUBSET Names, sync \in BOOLEAN :
          sel_call(action, names, sync)
    \/ sel_mutate
    \/ sel_save
    \/ sel_sync

SelSpec == SelInit /\ [][SelNext]_vars

\* --------------------------------------------------------------- status
\* operations/src/status.rs.
Offsets == {0, 60}
Times == {Time(t, o) : t \in 0..MaxTime, o \in Offsets}

\* a.cmp(&b) of git2::Time: by seconds, then by offset.
Time_cmp(a, b) ==
    IF a.seconds > b.seconds THEN "Greater"
    ELSE IF a.seconds < b.seconds THEN "Less"
    ELSE IF a.offset > b.offset THEN "Greater"
    ELSE IF a.offset < b.offset THEN "Less"
    ELSE "Equal"

\* i64::unsigned_abs.
unsigned_abs(d) == IF d < 0 THEN 0 - d ELSE d

\* What the line says: the duration in seconds, when there is one, and the
\* relation.
Line(n, rel) == [n |-> n, rel |-> rel]
NoLine == Line(None, "")

\* relative_time, lines 11-26.
relative_time(current_commit_time, prospective_commit_time) ==
    LET difference == prospective_commit_time.seconds - current_commit_time.seconds
        difference_duration == unsigned_abs(difference)
        ordering == Time_cmp(prospective_commit_time, current_commit_time)
    IN  IF ordering = "Greater" THEN Line(Some(difference_duration), "newer than")
        ELSE IF ordering = "Less" THEN Line(Some(difference_duration), "older than")
        ELSE Line(None, "the same as")

\* run, lines 28-51: with a head commit and a prefetched head, print the
\* current commit relative to the upstream one; print no such line otherwise.
status_run ==
    /\ statusOut = None
    /\ \/ /\ prefetchTime # None
          /\ statusOut' = Some(relative_time(headTime, prefetchTime[1]))
       \/ statusOut' = Some(NoLine)
    /\ UNCHANGED << headTime, prefetchTime, selVars, syncVars >>

StatusInit ==
    /\ SyncIdle
    /\ SelIdle
    /\ headTime \in Times
    /\ prefetchTime \in {None} \cup {Some(t) : t \in Times}
    /\ statusOut = None

StatusNext == status_run

StatusSpec == StatusInit /\ [][StatusNext]_vars

\* Fair scheduling: a caller inside run keeps taking its steps; nobody is
\* obliged to call run, and the environment is free.
\* Checked from a clone that has not been synchronized yet (no sync point).
FairInit == Init /\ syncPoint = None /\ preemptiveSyncPoint = None
FairSpec == FairInit /\ [][Next]_vars /\ \A p \in Procs : WF_vars(Step(p))

\* ===================================================================
\* Properties
\* ===================================================================

\* The steps of run between acquiring the lock (line 130) and returning.
LockedSteps == {"check_file", "selection", "guard", "commit", "sync_point",
                "compute", "rewrite", "checkout", "update"}
InPass(p) == pc[p] \in LockedSteps
Returned(p) == pc[p] = "done"

\* C1: for one repository root at most one sync pass, of any mode, is
\* between acquiring the sync lock and returning; a second caller stays at
\* the lock until the first pass has returned.
C1_AtMostOnePass ==
    \A p, q \in Procs : p # q => ~(InPass(p) /\ InPass(q))

\* A pass is rewriting the sparse-checkout file while another caller waits
\* for the lock.
C1_Witness ==
    \E p, q \in Procs : p # q /\ pc[p] = "rewrite" /\ pc[q] = "hold_lock"

\* C2: the lock is held only by a pass that has not yet returned: after run
\* returned, with Success, a skip or any error, the lock is not the caller's.
C2_LockReleasedOnExit ==
    \A p \in Procs :
        /\ lock = Some(p) => InPass(p)
        /\ Returned(p) => lock # Some(p)

\* A pass that held the lock returned an error from its last step and the
\* lock is free.
C2_Witness ==
    \E p \in Procs :
        /\ Returned(p)
        /\ result[p].error = "Updating the sync point"
        /\ lock = None

\* C3: contention is no error and no deadlock: under fair scheduling every
\* pass that has been called, blocked at the lock or not, eventually returns.
C3_EveryPassReturns ==
    \A p \in Procs : (pc[p] \notin {"idle", "done"}) ~> Returned(p)

\* A caller is blocked at the lock that a pass about to write its sync point
\* holds.
C3_Witness ==
    \E p, q \in Procs :
        /\ pc[p] = "hold_lock"
        /\ lock = Some(q)
        /\ pc[q] = "update"

\* The steps of run after the backup of the sparse-checkout file is armed.
GuardedSteps == {"commit", "sync_point", "compute", "rewrite", "checkout", "update"}

\* C4: when an immediate pass returns an error from a step after its backup
\* guard was armed, the sparse-checkout file is what it was when the pass
\* started, that is when it acquired the lock (from then on no other pass
\* writes the file); only the return of Success leaves a rewritten file.
C4_FailedPassRestoresFile ==
    [][\A p \in Procs :
          (/\ mode[p] = "Normal"
           /\ pc[p] \in GuardedSteps
           /\ pc'[p] = "done"
           /\ ~result'[p].ok)
          => sparseFile' = entryFile[p]]_vars

\* An immediate pass failed in the checkout, after it had rewritten the
\* file, and the file on disk is the profile from before the pass.
C4_Witness ==
    \E p \in Procs :
        /\ Returned(p)
        /\ mode[p] = "Normal"
        /\ result[p].error = "Sync failed: checkout"
        /\ sparseFile = Some(InitialProfile)

\* C5: a sync point changes only in the step in which a pass returns Success,
\* and then it is the reference of the pass's kind that is set, to the commit
\* reported in commit_id (the head commit for an immediate pass, the
\* prefetched commit the pass resolved for a preemptive one); a pass that
\* returns an error or a skip changes neither.
C5_SyncPointOnlyOnSuccess ==
    [][\A p \in Procs :
          (pc[p] # "done" /\ pc'[p] = "done")
          => IF result'[p].ok /\ result'[p].status = "Success"
             THEN /\ result'[p].commit_id = commit[p]
                  /\ commit[p] # None
                  /\ IF preemptive(mode[p])
                     THEN /\ preemptiveSyncPoint' = result'[p].commit_id
                          /\ syncPoint' = syncPoint
                     ELSE /\ syncPoint' = result'[p].commit_id
                          /\ result'[p].commit_id = Some(head)
                          /\ preemptiveSyncPoint' = preemptiveSyncPoint
             ELSE /\ syncPoint' = syncPoint
                  /\ preemptiveSyncPoint' = preemptiveSyncPoint]_vars

\* A preemptive pass returned Success and the preemptive sync point, and
\* not the immediate one, is the commit it reports.
C5_Witness ==
    \E p \in Procs :
        /\ Returned(p)
        /\ preemptive(mode[p])
        /\ result[p].status = "Success"
        /\ preemptiveSyncPoint = result[p].commit_id
        /\ syncPoint # result[p].commit_id

\* The steps of run after the preemptive short-circuit.
EngineSteps == {"compute", "rewrite", "checkout", "update"}

\* C6: a preemptive pass whose resolved prefetch commit equals the existing
\* preemptive sync point is skipped, whatever the immediate sync point: it
\* never goes on to compute, rewrite, check out or write a sync point.
C6_SkipOnPreemptiveSyncPoint ==
    \A p \in Procs :
        (preemptive(mode[p]) /\ pc[p] \in EngineSteps)
        => preemptiveSyncPoint # commit[p]

\* C7: a preemptive pass that reaches the short-circuit with the immediate
\* sync point equal to its resolved prefetch commit returns
\* SkippedSyncPointUnchanged with checked_out = false and commit_id that
\* commit, and changes neither sync point, the file nor the working tree.
C7_SkipOnImmediateSyncPoint ==
    [][\A p \in Procs :
          (/\ pc[p] = "sync_point"
           /\ preemptive(mode[p])
           /\ syncPoint = commit[p]
           /\ pc'[p] # "sync_point")
          => /\ pc'[p] = "done"
             /\ result'[p] = OkResult("SkippedSyncPointUnchanged", FALSE, commit[p])
             /\ UNCHANGED << syncPoint, preemptiveSyncPoint, sparseFile, workingTree >>]_vars

\* A preemptive pass was skipped on the immediate sync point while the
\* preemptive sync point is another commit.
C7_Witness ==
    \E p \in Procs :
        /\ Returned(p)
        /\ result[p].status = "SkippedSyncPointUnchanged"
        /\ syncPoint = result[p].commit_id
        /\ preemptiveSyncPoint # None
        /\ preemptiveSyncPoint # syncPoint

\* C8: a non-forced preemptive pass on a repository whose enablement flag is
\* unset returns SkippedPreemptiveSyncDisabled (checked_out false, no
\* commit_id) straight from the gate: no poll of the activity signal, no
\* step at the lock, no change of the repository.
C8_DisabledSkipsAtGate ==
    [][\A p \in Procs :
          (/\ pc[p] = "gate"
           /\ mode[p] = "Preemptive"
           /\ ~enabled
           /\ pc'[p] # "gate")
          => /\ pc'[p] = "done"
             /\ result'[p] = OkResult("SkippedPreemptiveSyncDisabled", FALSE, None)
             /\ polls'[p] = 0
             /\ UNCHANGED repoVars]_vars

\* A non-forced preemptive pass was skipped as disabled while another pass
\* holds the lock.
C8_Witness ==
    \E p, q \in Procs :
        /\ Returned(p)
        /\ result[p].status = "SkippedPreemptiveSyncDisabled"
        /\ lock = Some(q)

\* The steps of the idle wait and of run around it.
WaitSteps == {"wait_entry", "wait_loop", "wait_ret"}

\* C9: a forced preemptive pass and an immediate pass never enter the idle
\* wait and never return SkippedPreemptiveSyncDisabled or
\* SkippedPreemptiveSyncCancelledByActivity, whatever the enablement flag
\* and the activity state.
C9_ForceBypassesGate ==
    \A p \in Procs :
        mode[p] # "Preemptive"
        => /\ pc[p] \notin WaitSteps
           /\ polls[p] = 0
           /\ result[p].status \notin {"SkippedPreemptiveSyncDisabled",
                                       "SkippedPreemptiveSyncCancelledByActivity"}

\* A forced preemptive pass is computing on a disabled repository while the
\* machine is active.
C9_Witness ==
    \E p \in Procs :
        /\ mode[p] = "PreemptiveForce"
        /\ pc[p] = "compute"
        /\ ~enabled
        /\ session = "Active"

\* C10: the idle wait returns the invalid-configuration error exactly when
\* max_wait < idle_duration or poll_interval > max_wait, and then before any
\* poll and any sleep.
C10_InvalidConfiguration ==
    \A p \in Procs :
        pc[p] = "wait_ret"
        => /\ (waited[p] = "invalid")
                <=> (\/ args[p].max_wait < args[p].idle_duration
                     \/ args[p].poll_interval > args[p].max_wait)
           /\ waited[p] = "invalid" => (polls[p] = 0 /\ elapsed[p] = 0)

\* The wait was called with idle_duration 2 s, max_wait 1 s and poll_interval
\* 100 ms and returned the error without a poll.
C10_Witness ==
    \E p \in Procs :
        /\ pc[p] = "wait_ret"
        /\ args[p] = WaitArgs(2000, 1000, 100)
        /\ waited[p] = "invalid"
        /\ polls[p] = 0

\* C11: with a valid configuration every iteration of the idle wait that
\* starts within max_wait polls the activity signal once; a poll that
\* reports anything other than Active (idle, or undeterminable: fail open)
\* ends the wait with true at once, a poll that reports Active is followed
\* by a sleep of at least poll_interval, and the wait returns false only
\* from an iteration that starts after max_wait has elapsed.  A non-forced
\* preemptive sync returns SkippedPreemptiveSyncCancelledByActivity exactly
\* when the wait returned false, and then without holding the lock and
\* without changing the repository.
C11_WaitVerdict ==
    [][\A p \in Procs :
          /\ (pc[p] = "wait_loop" /\ pc'[p] = "wait_ret")
             => /\ (waited'[p] = "true")
                     <=> (elapsed[p] <= args[p].max_wait /\ session # "Active")
                /\ (waited'[p] = "false") <=> (elapsed[p] > args[p].max_wait)
                /\ waited'[p] = "true" => polls'[p] = polls[p] + 1
                /\ waited'[p] = "false" => polls'[p] = polls[p]
          /\ (pc[p] = "wait_loop" /\ pc'[p] = "wait_loop" /\ polls'[p] # polls[p])
             => /\ session = "Active"
                /\ elapsed[p] <= args[p].max_wait
                /\ polls'[p] = polls[p] + 1
                /\ elapsed'[p] >= elapsed[p] + args[p].poll_interval
          /\ (pc[p] = "wait_ret" /\ pc'[p] # "wait_ret")
             => /\ (result'[p].status = "SkippedPreemptiveSyncCancelledByActivity")
                     <=> (waited[p] = "false")
                /\ waited[p] = "false"
                     => /\ result'[p] =
                              OkResult("SkippedPreemptiveSyncCancelledByActivity",
                                       FALSE, None)
                        /\ pc'[p] = "done"
                        /\ lock # Some(p)
                        /\ UNCHANGED repoVars
                /\ waited[p] = "true" => pc'[p] = "hold_lock"
      ]_vars

\* The release build cancelled a preemptive sync after 30 s of activity.
C11_Witness ==
    \E p \in Procs :
        /\ ~cfg_test
        /\ Returned(p)
        /\ result[p].status = "SkippedPreemptiveSyncCancelledByActivity"

\* C12: max_wait is a hard ceiling of the idle wait: with a valid
\* configuration, whatever the activity, the wait starts no sleep that is
\* due to end more than max_wait after the wait was called, so that it
\* returns no later than max_wait after the call.
C12_HardCeiling ==
    [][\A p \in Procs :
          (pc[p] = "wait_loop" /\ elapsed'[p] # elapsed[p])
          => elapsed[p] + args[p].poll_interval <= args[p].max_wait
      ]_vars

\* C13: a pass that is past the scheduler gate on a repository whose
\* sparse-checkout file is absent fails with the not-a-focused-repository
\* error: it goes no further than the check of the file, so no profile is
\* computed, nothing is checked out, no backup is created and neither sync
\* point is written.
C13_MissingFileFails ==
    [][\A p \in Procs :
          /\ (pc[p] = "check_file" /\ sparseFile = None /\ pc'[p] # pc[p])
             => /\ pc'[p] = "done"
                /\ result'[p] = ErrResult("missing a sparse checkout file")
                /\ backup[p] = None
                /\ UNCHANGED << sparseFile, workingTree, syncPoint,
                                preemptiveSyncPoint >>
          /\ pc'[p] \in LockedSteps \ {"check_file"} => sparseFile' # None
      ]_vars

\* A forced preemptive pass has failed on a repository without the file,
\* which has no sync point and the working tree of the clone.
C13_Witness ==
    \E p \in Procs :
        /\ mode[p] = "PreemptiveForce"
        /\ Returned(p)
        /\ result[p].error = "missing a sparse checkout file"
        /\ sparseFile = None
        /\ preemptiveSyncPoint = None

\* Caller p is in an immediate pass that follows a successful immediate
\* pass of another caller with nothing changed in between: the sync point
\* is the head commit, and the file p found and the working tree are what
\* that pass produced.
SecondRun(p) ==
    /\ mode[p] = "Normal"
    /\ InPass(p)
    /\ \E q \in Procs \ {p} :
          /\ Returned(q)
          /\ mode[q] = "Normal"
          /\ result[q].ok
          /\ result[q].commit_id = Some(head)
    /\ syncPoint = Some(head)
    /\ entryFile[p] = Some(Profile(head))
    /\ workingTree = Profile(head)

\* C14: the second of two immediate syncs with no change in between finds
\* the sync point equal to the head commit and does nothing: it does not
\* compute the profile again, does not rewrite the sparse-checkout file and
\* does not check out.
C14_SecondRunIsNoOp ==
    \A p \in Procs :
        SecondRun(p) => pc[p] \notin {"rewrite", "checkout", "update"}

\* C14, amended: the second of two immediate syncs with no change in
\* between goes through the same steps as the first (an immediate pass does
\* not read the sync point); it changes neither the working tree nor the
\* sync point, it leaves the sparse-checkout file with the content the first
\* produced, and when it succeeds it returns Success with checked_out false
\* after having run the whole engine.
C14_SecondRunRepeats ==
    [][\A p \in Procs :
          SecondRun(p)
          => /\ workingTree' = workingTree
             /\ syncPoint' = syncPoint
             /\ pc'[p] = "done"
                  => /\ sparseFile' = entryFile[p]
                     /\ result'[p].ok
                          => /\ pc[p] = "update"
                             /\ result'[p] = OkResult("Success", FALSE, Some(head))
      ]_vars

\* Two immediate syncs of the same head commit have succeeded, one having
\* checked out and the other not.
C14_Witness ==
    \E p, q \in Procs :
        /\ p # q
        /\ Returned(p) /\ Returned(q)
        /\ mode[p] = "Normal" /\ mode[q] = "Normal"
        /\ result[q] = OkResult("Success", TRUE, Some(head))
        /\ result[p] = OkResult("Success", FALSE, Some(head))
        /\ syncPoint = Some(head)
        /\ sparseFile = Some(Profile(head))

\* C15: a selection operation whose names change nothing (names already
\* present for add, absent for remove) reports changed = false, writes no
\* selection file and runs no sync; an operation that changes the selection
\* writes the selection file once and, only after that and only with
\* sync_if_changed, runs one sync pass.  So of add([x]); add([x]) the second
\* neither writes nor syncs.
C15_SelectionMutation ==
    [][/\ (selPc = "mutate" /\ selPc' # "mutate"
           /\ Apply(selOp.action, selOp.names, selFile) = selFile)
          => /\ selPc' = "done"
             /\ ~selChanged'
             /\ selFile' = selFile
             /\ selWrites' = 0 /\ selSyncs' = 0
       /\ (selPc = "mutate" /\ selPc' = "done" /\ selLog'[Len(selLog')].ok)
          => Apply(selOp.action, selOp.names, selFile) = selFile
       /\ selWrites' # selWrites /\ selPc # "idle" /\ selPc # "done"
          => selChanged /\ selWrites' = 1 /\ selSyncs = 0 /\ selFile' = selMem
       /\ selSyncs' # selSyncs /\ selPc # "idle" /\ selPc # "done"
          => /\ selChanged /\ selOp.sync_if_changed
             /\ selWrites = 1 /\ selFile = selMem
             /\ selSyncs' = 1
       /\ (selPc' = "done" /\ selPc # "done" /\ selLog'[Len(selLog')].ok /\ selChanged')
          => /\ selWrites' = 1
             /\ selSyncs' = IF selOp.sync_if_changed THEN 1 ELSE 0
             /\ selFile' = selMem'
       /\ \A i \in 2..Len(selLog') :
             (/\ selLog'[i].op.action = "Add"
              /\ selLog'[i - 1].op.action = "Add"
              /\ selLog'[i].op.names = selLog'[i - 1].op.names
              /\ selLog'[i - 1].ok /\ selLog'[i].ok)
             => /\ ~selLog'[i].changed
                /\ selLog'[i].writes = 0
                /\ selLog'[i].syncs = 0
      ]_vars

\* add([x]) with sync_if_changed changed the selection, wrote it and ran
\* one sync; the same call again did neither.
C15_Witness ==
    /\ Len(selLog) = 2
    /\ selLog[1] = [op |-> [action |-> "Add", names |-> {"x"}, sync_if_changed |-> TRUE],
                    ok |-> TRUE, changed |-> TRUE, writes |-> 1, syncs |-> 1]
    /\ selLog[2] = [op |-> [action |-> "Add", names |-> {"x"}, sync_if_changed |-> TRUE],
                    ok |-> TRUE, changed |-> FALSE, writes |-> 0, syncs |-> 0]

\* C16: the line status prints says that the current commit is "N newer
\* than" the upstream commit exactly when the head commit's time is later
\* than the prefetched commit's, "N older than" exactly when it is earlier
\* and "the same as" exactly when the two times are equal, N being the
\* absolute difference of the two times in seconds.
C16_RelativeTime ==
    (statusOut # None /\ statusOut # Some(NoLine))
    => LET line == statusOut[1]
           current == headTime
           upstream == prefetchTime[1]
       IN  /\ (line.rel = "newer than") <=> (Time_cmp(current, upstream) = "Greater")
           /\ (line.rel = "older than") <=> (Time_cmp(current, upstream) = "Less")
           /\ (line.rel = "the same as") <=> (current = upstream)
           /\ line.rel # "the same as"
                => line.n = Some(unsigned_abs(current.seconds - upstream.seconds))

C18_FileCheckedBeforeLock ==
    \A p \in Procs :
        sparseFile = None
        => /\ lock # Some(p)
           /\ ~(pc[p] = "hold_lock" /\ lock # None)

\* C18, amended: the lock is acquired before the existence of the
\* sparse-checkout file is verified: a pass on a repository lacking the file
\* waits for the lock like any other while another pass holds it, returns
\* the not-a-focused-repository error only while holding the lock, and
\* releases the lock with that return.
C18_LockBeforeFileCheck ==
    [][\A p \in Procs :
          /\ (pc[p] # "done" /\ pc'[p] = "done"
              /\ result'[p].error = "missing a sparse checkout file")
             => /\ pc[p] = "check_file"
                /\ lock = Some(p)
                /\ lock' = None
          /\ (pc[p] = "hold_lock" /\ lock # None) => pc'[p] = "hold_lock"
          /\ (pc[p] = "hold_lock" /\ pc'[p] # "hold_lock")
             => pc'[p] = "check_file" /\ lock' = Some(p)
      ]_vars

\* On a repository lacking the file one pass holds the lock, about to check
\* the file, and another is waiting for the lock.
C18_Witness ==
    \E p, q \in Procs :
        /\ sparseFile = None
        /\ pc[p] = "hold_lock"
        /\ lock = Some(q)
        /\ pc[q] = "check_file"

\* C19: the two sync points are written by passes of their own kind only:
\* the immediate sync point changes only in the last step of an immediate
\* pass and the preemptive sync point only in the last step of a preemptive
\* pass, each by the pass that holds the lock.  So a preemptive pass,
\* whatever its outcome, leaves the immediate sync point as it was, and an
\* immediate pass leaves the preemptive one as it was.
C19_SyncPointsSeparate ==
    [][/\ syncPoint' # syncPoint
          => /\ preemptiveSyncPoint' = preemptiveSyncPoint
             /\ \E p \in Procs :
                   /\ lock = Some(p)
                   /\ mode[p] = "Normal"
                   /\ pc[p] = "update" /\ pc'[p] = "done"
       /\ preemptiveSyncPoint' # preemptiveSyncPoint
          => /\ syncPoint' = syncPoint
             /\ \E p \in Procs :
                   /\ lock = Some(p)
                   /\ preemptive(mode[p])
                   /\ pc[p] = "update" /\ pc'[p] = "done"
      ]_vars

\* A preemptive pass has succeeded and advanced the preemptive sync point
\* to its commit, next to an immediate sync point at another commit.
C19_Witness ==
    \E p \in Procs :
        /\ preemptive(mode[p])
        /\ Returned(p)
        /\ result[p].status = "Success"
        /\ preemptiveSyncPoint = result[p].commit_id
        /\ syncPoint # None
        /\ syncPoint # preemptiveSyncPoint

\* C20: an immediate sync ends in Success or in an error, never in a
\* skipped status; a preemptive sync ends in Success,
\* SkippedSyncPointUnchanged, SkippedPreemptiveSyncDisabled,
\* SkippedPreemptiveSyncCancelledByActivity or an error, the last two
\* statuses only when it is not forced;
\* SkippedSyncPointDifferenceIrrelevant is never returned.  Every skipped
\* result has checked_out false, and the commit id is absent exactly in the
\* results of the two skips of the scheduler.
C20_ReachableOutcomes ==
    \A p \in Procs :
        (Returned(p) /\ result[p].ok)
        => LET r == result[p]
               scheduler == {"SkippedPreemptiveSyncDisabled",
                             "SkippedPreemptiveSyncCancelledByActivity"}
           IN  /\ r.status \in SyncStatus
               /\ r.status # "SkippedSyncPointDifferenceIrrelevant"
               /\ mode[p] = "Normal" => r.status = "Success"
               /\ mode[p] = "PreemptiveForce"
                    => r.status \in {"Success", "SkippedSyncPointUnchanged"}
               /\ r.status # "Success" => ~r.checked_out
               /\ (r.commit_id = None) <=> (r.status \in scheduler)

\* One preemptive sync was skipped at its sync point, with the commit id in
\* the result, and another was cancelled by activity, without one.
C20_Witness ==
    \E p, q \in Procs :
        /\ Returned(p) /\ Returned(q)
        /\ result[p].status = "SkippedSyncPointUnchanged"
        /\ result[p].commit_id # None
        /\ result[q].status = "SkippedPreemptiveSyncCancelledByActivity"
        /\ result[q].commit_id = None

\* C21: a selection operation with sync_if_changed that has returned an
\* error leaves the persisted selection as it was when the operation
\* started, also when the error is that of the sync pass run after the save.
C21_FailedOperationKeepsSelection ==
    (selPc = "done" /\ selOp.sync_if_changed /\ ~selLog[Len(selLog)].ok)
    => selFile = selEntry

\* C22: in the release build (max_wait 30000 ms, poll interval 100 ms) the
\* idle wait of a non-forced preemptive sync never returns the
\* invalid-configuration error, whatever idle threshold the repository is
\* configured with: the scheduler's part ends by going on to the engine or
\* with SkippedPreemptiveSyncCancelledByActivity.
C22_NeverInvalidConfiguration ==
    \A p \in Procs :
        (~cfg_test /\ enabled /\ mode[p] = "Preemptive")
        => /\ waited[p] # "invalid"
           /\ Returned(p)
                => /\ result[p].ok
                   /\ result[p].status = "SkippedPreemptiveSyncCancelledByActivity"

\* C23: the idleness a non-forced preemptive pass relies on is not stale:
\* the pass begins the computation of the profile only if the machine has
\* been idle at some moment after the pass acquired the lock, so a pass
\* that confirmed idleness and then waited for the lock behind another pass
\* does not go on to compute on a machine that has been active ever since
\* it got the lock.
C23_IdlenessNotStale ==
    [][\A p \in Procs :
          (mode[p] = "Preemptive" /\ pc[p] = "sync_point" /\ pc'[p] = "compute")
          => idleSeen[p]
      ]_vars

\* C24: whenever an immediate pass has returned, with Success or with an
\* error (that of the sync point write after a completed checkout
\* included), the pattern set in the sparse-checkout file is the one the
\* working tree was last checked out with, and on Success the immediate
\* sync point is the commit the patterns were computed for.  Stated for
\* repositories that have the file and have seen immediate passes only,
\* while no pass is running.
C24_ProfileMatchesWorkingTree ==
    (/\ lock = None
     /\ sparseFile # None
     /\ \A q \in Procs : mode[q] = "Normal" /\ pc[q] \in {"idle", "done"})
    => \A p \in Procs :
          Returned(p)
          => /\ sparseFile = Some(workingTree)
             /\ result[p].ok
                  => /\ syncPoint = result[p].commit_id
                     /\ sparseFile = Some(Profile(syncPoint[1]))

====
